---- MODULE Spec2Model ----
(***************************************************************************)
(* Model of src/app.js: a Discord bot that answers the /wiki slash command *)
(* from an in-memory index of wiki pages, restricted to allowlisted        *)
(* guilds.                                                                 *)
(*                                                                         *)
(* Strings are sequences of one-character strings, so that length,         *)
(* substring search, trimming, lower-casing and concatenation are computed *)
(* character by character as the JavaScript string methods compute them.   *)
(***************************************************************************)
EXTENDS Integers, Sequences, FiniteSets, TLC

VARIABLES
    ALLOWED_GUILDS,   \* app.js:9   allowlist parsed from the environment
    apiResponse,      \* what the content API answers to the one fetch
    pc,               \* position of initializeBot / the client's life
    wikiPages,        \* app.js:53  the index held by the handlers' closure
    cache,            \* client.guilds.cache: guilds the bot is a member of
    readyQueue,       \* guilds the ready handler's loop has still to visit
    readyLog,         \* per guild, the calls the ready loop attempted for it
    event,            \* the event handled last
    out               \* what the handler of that event did

vars == <<ALLOWED_GUILDS, apiResponse, pc, wikiPages, cache, readyQueue,
          readyLog, event, out>>

NULL == <<"<null>">>

----------------------------------------------------------------------------
(* Bounds of the model *)

\* longest freely chosen prefix of the page list the content API returns
MaxBase == 2
\* number of generated matching pages appended to reach the result cap
MaxFill == 26

----------------------------------------------------------------------------
(* String primitives *)

Upper == <<"A","B","C","D","E","F","G","H","I","J","K","L","M",
           "N","O","P","Q","R","S","T","U","V","W","X","Y","Z">>
Lower == <<"a","b","c","d","e","f","g","h","i","j","k","l","m",
           "n","o","p","q","r","s","t","u","v","w","x","y","z">>

\* one character of String.prototype.toLowerCase
LowerChar(c) ==
    IF \E k \in 1..26 : Upper[k] = c
    THEN Lower[CHOOSE k \in 1..26 : Upper[k] = c]
    ELSE c

\* String.prototype.toLowerCase
toLowerCase(s) == [k \in 1..Len(s) |-> LowerChar(s[k])]

\* String.prototype.includes
includes(s, sub) ==
    \E k \in 0..(Len(s) - Len(sub)) : SubSeq(s, k + 1, k + Len(sub)) = sub

IsSpace(c) == c = " "

\* String.prototype.trim
trim(s) ==
    IF \A k \in 1..Len(s) : IsSpace(s[k])
    THEN <<>>
    ELSE LET first == CHOOSE i \in 1..Len(s) :
                        ~IsSpace(s[i]) /\ \A j \in 1..(i-1) : IsSpace(s[j])
             last  == CHOOSE i \in 1..Len(s) :
                        ~IsSpace(s[i]) /\ \A j \in (i+1)..Len(s) : IsSpace(s[j])
         IN SubSeq(s, first, last)

\* Array.prototype.includes
ArrayIncludes(arr, x) == \E k \in 1..Len(arr) : arr[k] = x

\* Array.prototype.slice(0, n)
Slice0(arr, n) == SubSeq(arr, 1, IF Len(arr) < n THEN Len(arr) ELSE n)

Digits == <<"0","1","2","3","4","5","6","7","8","9">>
TwoDigits(n) == <<Digits[(n \div 10) + 1], Digits[(n % 10) + 1]>>

----------------------------------------------------------------------------
(* Literals of the program *)

START_TYPING == <<"s", "t", "a", "r", "t", "_", "t", "y", "p", "i", "n", "g">>
NO_RESULTS == <<"n", "o", "_", "r", "e", "s", "u", "l", "t", "s">>
MSG_START_TYPING == <<"S", "t", "a", "r", "t", " ", "t", "y", "p", "i", "n", "g", " ", "t", "o", " ", "s", "e", "a", "r", "c", "h", " ", "w", "i", "k", "i", " ", "p", "a", "g", "e", "s", " ", "(", "m", "i", "n", " ", "3", " ", "c", "h", "a", "r", "a", "c", "t", "e", "r", "s", ")">>
MSG_NO_RESULTS == <<"N", "o", " ", "w", "i", "k", "i", " ", "p", "a", "g", "e", "s", " ", "f", "o", "u", "n", "d", ".", " ", "T", "r", "y", " ", "a", " ", "d", "i", "f", "f", "e", "r", "e", "n", "t", " ", "s", "e", "a", "r", "c", "h", ".">>
MSG_UNAUTHORIZED == <<"T", "h", "i", "s", " ", "b", "o", "t", " ", "i", "s", " ", "n", "o", "t", " ", "a", "u", "t", "h", "o", "r", "i", "z", "e", "d", " ", "t", "o", " ", "o", "p", "e", "r", "a", "t", "e", " ", "i", "n", " ", "t", "h", "i", "s", " ", "s", "e", "r", "v", "e", "r", ".">>
MSG_INVALID == <<"P", "l", "e", "a", "s", "e", " ", "s", "e", "l", "e", "c", "t", " ", "a", " ", "v", "a", "l", "i", "d", " ", "w", "i", "k", "i", " ", "p", "a", "g", "e", ".">>
UNKNOWN_PAGE == <<"U", "n", "k", "n", "o", "w", "n", " ", "P", "a", "g", "e">>
\* process.env.WIKI_BASE_URL
WIKI_BASE_URL == <<"h", "t", "t", "p", "s", ":", "/", "/", "w", "i", "k", "i">>
WIKI == <<"w", "i", "k", "i">>

\* focusedValue.length < 3
MinQueryLength == 3
\* .slice(0, 25)
MaxChoices == 25

----------------------------------------------------------------------------
(* The environment: configuration, content API, guilds *)

G1 == <<"1">>
G2 == <<"2">>
GuildIds == {G1, G2}

\* values of process.env.ALLOWED_GUILDS: unset, empty, one id, two ids with
\* blanks around them
EnvAllowed == { NULL, <<>>, <<"1">>, <<" ", "1", " ", ",", "2">> }

T_Setup == <<"S", "e", "t", "u", "p", " ", "G", "u", "i", "d", "e">>
P_setup == <<"s", "e", "t", "u", "p">>
G_Install == <<"I", "n", "s", "t", "a", "l", "l">>
T_Secret == <<"S", "e", "c", "r", "e", "t">>
P_secret == <<"s", "e", "c", "r", "e", "t">>
T_FAQ == <<"F", "A", "Q">>
P_ghost == <<"g", "h", "o", "s", "t">>

\* pages as the content API lists them (title, path, tags, isPrivate)
ApiPages ==
    { [title |-> T_Setup,  path |-> P_setup,      tags |-> <<G_Install>>,
       isPrivate |-> FALSE],
      [title |-> T_Secret, path |-> P_secret,     tags |-> <<P_setup>>,
       isPrivate |-> TRUE],
      [title |-> T_FAQ,    path |-> START_TYPING, tags |-> <<>>,
       isPrivate |-> FALSE] }

\* the n-th generated page: public, title "Setup nn", path "pnn"
FillPage(n) ==
    [title |-> <<"S", "e", "t", "u", "p", " ">> \o TwoDigits(n),
     path |-> <<"p">> \o TwoDigits(n),
     tags |-> <<>>,
     isPrivate |-> FALSE]

FillPages(n) == [k \in 1..n |-> FillPage(k)]

BaseLists == UNION { [1..n -> ApiPages] : n \in 0..MaxBase }

\* outcomes of the one axios.post: a page list, a rejected request, or a
\* response lacking one of the fields the loader dereferences
ApiResponses ==
    { [status |-> "ok", list |-> b \o FillPages(n)] :
          b \in BaseLists, n \in {0, MaxFill} }
    \cup { [status |-> "error", list |-> <<>>],
           [status |-> "malformed", list |-> <<>>] }

\* values typed into, or submitted as, the query option
Values ==
    { <<>>,
      <<"s", "e">>,
      <<"s", "e", "t">>,
      <<"S", "E", "T">>,
      <<"i", "n", "s">>,
      <<"x", "y", "z">>,
      <<" ", "g", "u">>,
      <<"s", " ", " ">>,
      P_setup, P_ghost, START_TYPING, NO_RESULTS }

----------------------------------------------------------------------------
(* Module level: the allowlist (app.js:9-11) *)

\* String.prototype.split(',')
RECURSIVE SplitFrom(_, _)
SplitFrom(s, acc) ==
    IF s = <<>> THEN <<acc>>
    ELSE IF Head(s) = "," THEN <<acc>> \o SplitFrom(Tail(s), <<>>)
    ELSE SplitFrom(Tail(s), Append(acc, Head(s)))

split(s) == SplitFrom(s, <<>>)

\* process.env.ALLOWED_GUILDS ? split(',').map(id => id.trim()) : []
ParseAllowedGuilds(env) ==
    IF env = NULL \/ env = <<>>
    THEN <<>>
    ELSE [k \in 1..Len(split(env)) |-> trim(split(env)[k])]

----------------------------------------------------------------------------
(* fetchWikiPages (app.js:13-42) *)

\* variant: the privacy filter left out
FilterPublic_KeepAll(list) == list

\* .filter(page => !page.isPrivate)
RECURSIVE FilterPublic(_)
FilterPublic(list) ==
    IF list = <<>> THEN <<>>
    ELSE (IF ~Head(list).isPrivate THEN <<Head(list)>> ELSE <<>>)
         \o FilterPublic(Tail(list))

\* .map(page => ({title, path, lowercaseTitle, tags}))
MapPage(page) ==
    [title |-> page.title,
     path |-> page.path,
     lowercaseTitle |-> toLowerCase(page.title),
     tags |-> [k \in 1..Len(page.tags) |-> toLowerCase(page.tags[k])]]

BuildIndex(list) ==
    LET pub == FilterPublic(list)
    IN [k \in 1..Len(pub) |-> MapPage(pub[k])]

\* variant: no catch block, the failure leaves the function
fetchWikiPages_NoCatch(resp) ==
    IF resp.status = "ok"
    THEN [pages |-> BuildIndex(resp.list), threw |-> FALSE]
    ELSE [pages |-> <<>>, threw |-> TRUE]

\* the whole function: the try block's value, or [] from the catch block;
\* threw says whether an exception left the function
fetchWikiPages(resp) ==
    IF resp.status = "ok"
    THEN [pages |-> BuildIndex(resp.list), threw |-> FALSE]
    ELSE [pages |-> <<>>, threw |-> FALSE]

----------------------------------------------------------------------------
(* Outbound calls and handler results *)

NoCall == <<>>

\* interaction.reply({content, ephemeral})
Reply(content, ephemeral) ==
    [op |-> "reply", content |-> content, ephemeral |-> ephemeral,
     choices |-> <<>>, guild |-> NULL]

\* interaction.respond(choices)
Respond(choices) ==
    [op |-> "respond", content |-> <<>>, ephemeral |-> FALSE,
     choices |-> choices, guild |-> NULL]

\* rest.put(Routes.applicationGuildCommands(CLIENT_ID, guildId), ...)
Deploy(guildId) ==
    [op |-> "deploy", content |-> <<>>, ephemeral |-> FALSE,
     choices |-> <<>>, guild |-> guildId]

\* guild.leave()
Leave(guildId) ==
    [op |-> "leave", content |-> <<>>, ephemeral |-> FALSE,
     choices |-> <<>>, guild |-> guildId]

\* what one run of a handler did: the external calls it attempted, whether
\* it evaluated the index filter, whether it evaluated wikiPages.find,
\* whether it logged a caught error, and whether an exception left it (the
\* promise the async handler returns is rejected)
Result(calls, searched, lookedUp, logged, escaped, pageTitle, pageUrl) ==
    [calls |-> calls, searched |-> searched, lookedUp |-> lookedUp,
     logged |-> logged, escaped |-> escaped,
     pageTitle |-> pageTitle, pageUrl |-> pageUrl]

Nothing == Result(NoCall, FALSE, FALSE, FALSE, FALSE, <<>>, <<>>)

----------------------------------------------------------------------------
(* interactionCreate handler (app.js:105-179) *)

\* variant: only the missing guild is refused
Unauthorized_GuildOnly(allowed, guild) == guild = NULL

\* !interaction.guild || !ALLOWED_GUILDS.includes(interaction.guild.id)
Unauthorized(allowed, guild) ==
    guild = NULL \/ ~ArrayIncludes(allowed, guild)

\* app.js:107-117: the denial reply inside try; the catch block reads
\* interaction.guild.name, which throws when the interaction has no guild
HandleUnauthorized(i) ==
    IF i.kind \in {"command", "autocomplete"}
    THEN Result(<<Reply(MSG_UNAUTHORIZED, TRUE)>>, FALSE, FALSE,
                ~i.callOk /\ i.guild # NULL,
                ~i.callOk /\ i.guild = NULL,
                <<>>, <<>>)
    ELSE Nothing

\* variant: the threshold off by one
TooShort_Below2(focusedValue) == Len(focusedValue) < MinQueryLength - 1

\* focusedValue.length < 3
TooShort(focusedValue) == Len(focusedValue) < MinQueryLength

\* the filter predicate (app.js:135-136)
Matches(page, focusedValue) ==
    \/ includes(page.lowercaseTitle, toLowerCase(focusedValue))
    \/ \E k \in 1..Len(page.tags) :
          includes(toLowerCase(page.tags[k]), toLowerCase(focusedValue))

\* wikiPages.filter(...)
RECURSIVE FilterMatches(_, _)
FilterMatches(pages, focusedValue) ==
    IF pages = <<>> THEN <<>>
    ELSE (IF Matches(Head(pages), focusedValue) THEN <<Head(pages)>> ELSE <<>>)
         \o FilterMatches(Tail(pages), focusedValue)

\* .map(page => ({name: page.title, value: page.path}))
Choice(page) == [name |-> page.title, value |-> page.path]

\* variant: the slice left out
Filtered_NoSlice(pages, focusedValue) ==
    LET all == FilterMatches(pages, focusedValue)
    IN [k \in 1..Len(all) |-> Choice(all[k])]

\* wikiPages.filter(...).slice(0, 25).map(...)
Filtered(pages, focusedValue) ==
    LET cut == Slice0(FilterMatches(pages, focusedValue), MaxChoices)
    IN [k \in 1..Len(cut) |-> Choice(cut[k])]

StartTypingChoices == <<[name |-> MSG_START_TYPING, value |-> START_TYPING]>>
NoResultsChoices == <<[name |-> MSG_NO_RESULTS, value |-> NO_RESULTS]>>

\* variant: the empty result is sent as it is
ChoicesFor_NoSentinel(pages, focusedValue) == Filtered(pages, focusedValue)

\* if (filtered.length === 0) respond(no_results) else respond(filtered)
ChoicesFor(pages, focusedValue) ==
    IF Len(Filtered(pages, focusedValue)) = 0
    THEN NoResultsChoices
    ELSE Filtered(pages, focusedValue)

\* app.js:120-155: none of the three respond calls is inside a try block
HandleAutocomplete(pages, i) ==
    IF TooShort(i.value)
    THEN Result(<<Respond(StartTypingChoices)>>, FALSE, FALSE,
                FALSE, ~i.callOk, <<>>, <<>>)
    ELSE Result(<<Respond(ChoicesFor(pages, i.value))>>, TRUE, FALSE,
                FALSE, ~i.callOk, <<>>, <<>>)

\* variant: only one of the two sentinels is recognised
IsSentinel_OnlyNoResults(selectedPage) == selectedPage = NO_RESULTS

\* selectedPage === 'start_typing' || selectedPage === 'no_results'
IsSentinel(selectedPage) ==
    selectedPage = START_TYPING \/ selectedPage = NO_RESULTS

\* wikiPages.find(page => page.path === selectedPage): the first page of
\* that path as a one-element sequence, the empty sequence for undefined
Find(pages, selectedPage) ==
    IF \E k \in 1..Len(pages) : pages[k].path = selectedPage
    THEN <<pages[CHOOSE k \in 1..Len(pages) :
                    /\ pages[k].path = selectedPage
                    /\ \A j \in 1..(k-1) : pages[j].path # selectedPage]>>
    ELSE <<>>

\* variant: the lookup result is ignored
PageTitle_AlwaysUnknown(pages, selectedPage) == UNKNOWN_PAGE

\* pageInfo ? pageInfo.title : 'Unknown Page'
PageTitle(pages, selectedPage) ==
    IF Find(pages, selectedPage) # <<>>
    THEN Find(pages, selectedPage)[1].title
    ELSE UNKNOWN_PAGE

\* `${process.env.WIKI_BASE_URL}/${selectedPage}`
PageUrl(selectedPage) == WIKI_BASE_URL \o <<"/">> \o selectedPage

\* `**${pageTitle}**: ${pageUrl}`
PageContent(pageTitle, pageUrl) ==
    <<"*", "*">> \o pageTitle \o <<"*", "*", ":", " ">> \o pageUrl

\* app.js:157-178: neither reply call is inside a try block
HandleCommand(pages, i) ==
    IF i.commandName # WIKI
    THEN Nothing
    ELSE IF IsSentinel(i.value)
    THEN Result(<<Reply(MSG_INVALID, TRUE)>>, FALSE, FALSE,
                FALSE, ~i.callOk, <<>>, <<>>)
    ELSE Result(<<Reply(PageContent(PageTitle(pages, i.value),
                                    PageUrl(i.value)), FALSE)>>,
                FALSE, TRUE, FALSE, ~i.callOk,
                PageTitle(pages, i.value), PageUrl(i.value))

\* the whole handler
interactionCreate(allowed, pages, i) ==
    IF Unauthorized(allowed, i.guild)
    THEN HandleUnauthorized(i)
    ELSE IF i.kind = "autocomplete" THEN HandleAutocomplete(pages, i)
    ELSE IF i.kind = "command" THEN HandleCommand(pages, i)
    ELSE Nothing

\* the interactions the platform can deliver: an autocomplete keystroke, a
\* chat-input command, or any other interaction (a button, a modal), from a
\* guild or from a direct message (no guild); callOk is whether the reply or
\* respond call the handler makes succeeds
OTHER_COMMAND == <<"o", "t", "h", "e", "r">>

Interactions ==
    { [type |-> "interaction", guild |-> g, kind |-> k, commandName |-> c,
       value |-> v, callOk |-> ok] :
        g \in GuildIds \cup {NULL}, k \in {"autocomplete", "command"},
        c \in {WIKI}, v \in Values, ok \in BOOLEAN }
    \cup
    { [type |-> "interaction", guild |-> g, kind |-> k, commandName |-> c,
       value |-> <<>>, callOk |-> ok] :
        g \in GuildIds \cup {NULL}, k \in {"command", "other"},
        c \in {OTHER_COMMAND}, ok \in BOOLEAN }

----------------------------------------------------------------------------
(* guildCreate and ready handlers (app.js:76-103, 181-197) *)

\* variant: the allowlist test inverted
LifecycleCall_Inverted(allowed, guildId) ==
    IF ArrayIncludes(allowed, guildId) THEN Leave(guildId) ELSE Deploy(guildId)

\* if (ALLOWED_GUILDS.includes(id)) deployCommands(id) else guild.leave()
LifecycleCall(allowed, guildId) ==
    IF ArrayIncludes(allowed, guildId) THEN Deploy(guildId) ELSE Leave(guildId)

\* both calls sit inside try/catch (app.js:77-85, 93-98, 190-194): a failure
\* is logged and the handler goes on
LifecycleResult(allowed, guildId, callOk) ==
    Result(<<LifecycleCall(allowed, guildId)>>, FALSE, FALSE,
           ~callOk, FALSE, <<>>, <<>>)

\* the orders in which a Map of these guilds can be iterated
Orders(S) ==
    { q \in UNION { [1..n -> S] : n \in {Cardinality(S)} } :
        \A a, b \in 1..Len(q) : a # b => q[a] # q[b] }

----------------------------------------------------------------------------
(* The state machine *)

NoEvent == [type |-> "none"]

Init ==
    /\ \E env \in EnvAllowed : ALLOWED_GUILDS = ParseAllowedGuilds(env)
    /\ apiResponse \in ApiResponses
    /\ pc = "start"
    /\ wikiPages = <<>>
    /\ cache = {}
    /\ readyQueue = <<>>
    /\ readyLog = [g \in GuildIds |-> <<>>]
    /\ event = NoEvent
    /\ out = Nothing

\* app.js:53: const wikiPages = await fetchWikiPages(); an exception would
\* reject initializeBot (app.js:202) before any handler is registered
FetchWikiPages ==
    /\ pc = "start"
    /\ wikiPages' = fetchWikiPages(apiResponse).pages
    /\ pc' = IF fetchWikiPages(apiResponse).threw THEN "crashed" ELSE "loaded"
    /\ UNCHANGED <<ALLOWED_GUILDS, apiResponse, cache, readyQueue, readyLog,
                   event, out>>

\* app.js:56-199: the client is built, the handlers registered, login called
Login ==
    /\ pc = "loaded"
    /\ pc' = "loggedin"
    /\ UNCHANGED <<ALLOWED_GUILDS, apiResponse, wikiPages, cache, readyQueue,
                   readyLog, event, out>>

\* app.js:181-185: the ready event; the cache holds the guilds the bot is a
\* member of, and the loop starts over them
Ready ==
    /\ pc = "loggedin"
    /\ \E S \in SUBSET GuildIds : \E q \in Orders(S) :
          /\ cache' = S
          /\ readyQueue' = q
    /\ pc' = "ready"
    /\ event' = [type |-> "ready"]
    /\ out' = Nothing
    /\ UNCHANGED <<ALLOWED_GUILDS, apiResponse, wikiPages, readyLog>>

\* app.js:185-196: one iteration of the ready loop, up to the end of its await
ReadyStep ==
    /\ pc = "ready"
    /\ readyQueue # <<>>
    /\ \E callOk \in BOOLEAN :
          LET g == Head(readyQueue)
              r == LifecycleResult(ALLOWED_GUILDS, g, callOk)
          IN /\ out' = r
             /\ event' = [type |-> "readyStep", guild |-> g, callOk |-> callOk]
             /\ readyLog' = [readyLog EXCEPT ![g] =
                               Append(@, [call |-> r.calls[1], ok |-> callOk])]
             /\ cache' = IF r.calls[1].op = "leave" /\ callOk
                         THEN cache \ {g} ELSE cache
    /\ readyQueue' = Tail(readyQueue)
    /\ UNCHANGED <<ALLOWED_GUILDS, apiResponse, pc, wikiPages>>

\* app.js:88-103: the bot is added to a guild
GuildCreate ==
    /\ pc = "ready"
    /\ \E g \in GuildIds \ cache : \E callOk \in BOOLEAN :
          LET r == LifecycleResult(ALLOWED_GUILDS, g, callOk)
          IN /\ out' = r
             /\ event' = [type |-> "guildCreate", guild |-> g, callOk |-> callOk]
             /\ cache' = IF r.calls[1].op = "leave" /\ callOk
                         THEN cache ELSE cache \cup {g}
    /\ UNCHANGED <<ALLOWED_GUILDS, apiResponse, pc, wikiPages, readyQueue,
                   readyLog>>

\* app.js:105-179: an interaction arrives and its handler runs; handlers of
\* different interactions share no state, so they are taken one at a time
InteractionCreate ==
    /\ pc \in {"loggedin", "ready"}
    /\ event.type # "interaction"
    /\ \E i \in Interactions :
          /\ event' = i
          /\ out' = interactionCreate(ALLOWED_GUILDS, wikiPages, i)
    /\ UNCHANGED <<ALLOWED_GUILDS, apiResponse, pc, wikiPages, cache,
                   readyQueue, readyLog>>

\* app.js:179: the handler has returned (or its promise was rejected); the
\* next interaction can be taken
InteractionReturn ==
    /\ event.type = "interaction"
    /\ event' = NoEvent
    /\ out' = Nothing
    /\ UNCHANGED <<ALLOWED_GUILDS, apiResponse, pc, wikiPages, cache,
                   readyQueue, readyLog>>

\* the loader and the command dispatcher
Next == FetchWikiPages \/ Login \/ InteractionCreate \/ InteractionReturn

Spec == Init /\ [][Next]_vars

\* the loader and the guild lifecycle; the two handler families share only
\* ALLOWED_GUILDS and wikiPages, which no handler writes
LifecycleInit == Init /\ Len(apiResponse.list) <= 1

LifecycleNext == FetchWikiPages \/ Login \/ Ready \/ ReadyStep \/ GuildCreate

\* each await of the ready loop settles (resolves or rejects)
LifecycleSpec ==
    LifecycleInit /\ [][LifecycleNext]_vars /\ WF_vars(ReadyStep)

----------------------------------------------------------------------------
(* Vocabulary of the properties *)

\* an interaction has just been handled
Handled == event.type = "interaction"

\* ... and it came from a guild on the allowlist
FromAllowed ==
    /\ Handled
    /\ event.guild # NULL
    /\ \E k \in DOMAIN ALLOWED_GUILDS : ALLOWED_GUILDS[k] = event.guild

AutocompleteHandled == FromAllowed /\ event.kind = "autocomplete"

WikiCommandHandled ==
    FromAllowed /\ event.kind = "command" /\ event.commandName = WIKI

\* the handler made exactly one call, a respond with these choices
RespondedWith(choices) ==
    /\ Len(out.calls) = 1
    /\ out.calls[1].op = "respond"
    /\ out.calls[1].choices = choices

\* the handler made exactly one call, a reply with this content
RepliedWith(content, ephemeral) ==
    /\ Len(out.calls) = 1
    /\ out.calls[1].op = "reply"
    /\ out.calls[1].content = content
    /\ out.calls[1].ephemeral = ephemeral

\* positions of the index pages whose lower-cased title, or one of whose
\* tags, contains the lower-cased query
MatchingPositions(q) ==
    { k \in 1..Len(wikiPages) :
        \/ includes(toLowerCase(wikiPages[k].title), toLowerCase(q))
        \/ \E t \in 1..Len(wikiPages[k].tags) :
              includes(wikiPages[k].tags[t], toLowerCase(q)) }

\* the j-th smallest element of a set of positions
Nth(S, j) == CHOOSE k \in S : Cardinality({m \in S : m <= k}) = j

Min(a, b) == IF a < b THEN a ELSE b

----------------------------------------------------------------------------
(* C1 *)

\* C1 (as stated): an autocomplete query from an allowlisted guild whose
\* length after trimming is below 3 is answered with exactly the
\* start_typing sentinel and no real page
C1_TrimmedShortGetsStartTyping ==
    (AutocompleteHandled /\ Len(trim(event.value)) < 3)
        => /\ RespondedWith(<<[name |-> MSG_START_TYPING,
                               value |-> START_TYPING]>>)
           /\ ~out.searched

\* C1 (amended): an autocomplete query from an allowlisted guild whose raw
\* length, blanks included, is below 3 is answered with exactly the
\* start_typing sentinel, whatever the index holds, and the index is not
\* searched
C1_RawShortGetsStartTyping ==
    (AutocompleteHandled /\ Len(event.value) < 3)
        => /\ RespondedWith(<<[name |-> MSG_START_TYPING,
                               value |-> START_TYPING]>>)
           /\ ~out.searched

\* a two-character query that a page of the index would match
C1_Witness ==
    /\ AutocompleteHandled
    /\ event.value = <<"s", "e">>
    /\ MatchingPositions(event.value) # {}
    /\ RespondedWith(<<[name |-> MSG_START_TYPING, value |-> START_TYPING]>>)

----------------------------------------------------------------------------
(* C2 *)

\* C2: an autocomplete query of at least 3 characters that matches some page
\* is answered with the matching pages in index order, cut to the first 25,
\* each as (name = title, value = path); never more than 25 candidates
C2_MatchesInOrderCapped ==
    (AutocompleteHandled /\ Len(event.value) >= 3
       /\ MatchingPositions(event.value) # {})
        => LET M == MatchingPositions(event.value)
               n == Min(Cardinality(M), 25)
           IN /\ Len(out.calls) = 1
              /\ out.calls[1].op = "respond"
              /\ Len(out.calls[1].choices) = n
              /\ Len(out.calls[1].choices) <= 25
              /\ \A j \in 1..n :
                    /\ out.calls[1].choices[j].name = wikiPages[Nth(M, j)].title
                    /\ out.calls[1].choices[j].value = wikiPages[Nth(M, j)].path

\* more than 25 pages match and 25 are returned
C2_Witness ==
    /\ AutocompleteHandled
    /\ Cardinality(MatchingPositions(event.value)) > 25
    /\ Len(event.value) >= 3
    /\ Len(out.calls) = 1
    /\ Len(out.calls[1].choices) = 25

----------------------------------------------------------------------------
(* C3 *)

\* C3: an autocomplete query of at least 3 characters that no page matches
\* is answered with exactly the no_results sentinel, and that sentinel is
\* never the answer when some page matches
C3_NoResultsIffNoMatch ==
    (AutocompleteHandled /\ Len(event.value) >= 3)
        => (MatchingPositions(event.value) = {}
              <=> RespondedWith(<<[name |-> MSG_NO_RESULTS,
                                   value |-> NO_RESULTS]>>))

\* a non-empty index none of whose pages matches
C3_Witness ==
    /\ AutocompleteHandled
    /\ Len(event.value) >= 3
    /\ wikiPages # <<>>
    /\ MatchingPositions(event.value) = {}
    /\ RespondedWith(<<[name |-> MSG_NO_RESULTS, value |-> NO_RESULTS]>>)

----------------------------------------------------------------------------
(* C4 *)

\* C4: a command or autocomplete interaction with no guild, or from a guild
\* not on the allowlist, gets the denial reply as the only call; the index
\* is neither searched nor looked up
C4_UnauthorizedOnlyDenied ==
    (/\ Handled
     /\ event.kind \in {"command", "autocomplete"}
     /\ \/ event.guild = NULL
        \/ \A k \in DOMAIN ALLOWED_GUILDS : ALLOWED_GUILDS[k] # event.guild)
        => /\ RepliedWith(MSG_UNAUTHORIZED, TRUE)
           /\ ~out.searched
           /\ ~out.lookedUp
           /\ out.pageTitle = <<>>
           /\ out.pageUrl = <<>>

\* empty allowlist, a wiki command naming a page the index holds
C4_Witness ==
    /\ Handled
    /\ ALLOWED_GUILDS = <<>>
    /\ event.guild = G1
    /\ event.kind = "command"
    /\ event.commandName = WIKI
    /\ \E k \in 1..Len(wikiPages) : wikiPages[k].path = event.value
    /\ RepliedWith(MSG_UNAUTHORIZED, TRUE)

----------------------------------------------------------------------------
(* C5 *)

\* C5: no failure of an external call leaves the handler of an interaction:
\* the handler completes normally
C5_NoFailureEscapes == Handled => ~out.escaped

----------------------------------------------------------------------------
(* C6 *)

\* C6: a wiki command from an allowlisted guild with a non-sentinel value v
\* gets one public reply "**title**: base/v", where title is the title of an
\* index page of path v if there is one and "Unknown Page" otherwise
C6_PageReply ==
    (WikiCommandHandled
       /\ event.value # START_TYPING /\ event.value # NO_RESULTS)
        => LET v == event.value
               hits == { k \in 1..Len(wikiPages) : wikiPages[k].path = v }
           IN /\ out.pageUrl = WIKI_BASE_URL \o <<"/">> \o v
              /\ hits # {} => \E k \in hits : out.pageTitle = wikiPages[k].title
              /\ hits = {} => out.pageTitle = UNKNOWN_PAGE
              /\ RepliedWith(<<"*", "*">> \o out.pageTitle
                               \o <<"*", "*", ":", " ">> \o out.pageUrl, FALSE)

\* the value names a page of the index, whose title is replied
C6_Witness ==
    /\ WikiCommandHandled
    /\ event.value = P_setup
    /\ out.pageTitle = T_Setup
    /\ Len(out.calls) = 1

----------------------------------------------------------------------------
(* C7 *)

\* C7: a wiki command from an allowlisted guild whose value is start_typing
\* or no_results gets the "select a valid page" reply; no lookup is made and
\* no title or URL is replied, even if a page has that path
C7_SentinelRefused ==
    (WikiCommandHandled
       /\ (event.value = START_TYPING \/ event.value = NO_RESULTS))
        => /\ RepliedWith(MSG_INVALID, TRUE)
           /\ ~out.lookedUp
           /\ out.pageTitle = <<>>
           /\ out.pageUrl = <<>>

\* the index holds a page whose path is the sentinel submitted
C7_Witness ==
    /\ WikiCommandHandled
    /\ event.value = START_TYPING
    /\ \E k \in 1..Len(wikiPages) : wikiPages[k].path = START_TYPING
    /\ RepliedWith(MSG_INVALID, TRUE)

----------------------------------------------------------------------------
(* C8 *)

\* positions of the public pages of the fetched list
PublicPositions ==
    { k \in 1..Len(apiResponse.list) : ~apiResponse.list[k].isPrivate }

\* C8: after a successful fetch the index holds no private page and holds
\* every public page of the fetched list once, in fetch order, title and
\* path unchanged
C8_IndexIsPublicPages ==
    (pc # "start" /\ apiResponse.status = "ok")
        => /\ Len(wikiPages) = Cardinality(PublicPositions)
           /\ \A j \in 1..Len(wikiPages) :
                 /\ wikiPages[j].title =
                        apiResponse.list[Nth(PublicPositions, j)].title
                 /\ wikiPages[j].path =
                        apiResponse.list[Nth(PublicPositions, j)].path
           /\ \A k \in 1..Len(apiResponse.list) :
                 apiResponse.list[k].isPrivate
                    => \A j \in 1..Len(wikiPages) :
                          wikiPages[j].path # apiResponse.list[k].path

\* a private page is dropped from in front of a public one
C8_Witness ==
    /\ pc = "loaded"
    /\ apiResponse.status = "ok"
    /\ Len(apiResponse.list) >= 2
    /\ apiResponse.list[1].isPrivate
    /\ Len(wikiPages) >= 1
    /\ wikiPages[1].path = apiResponse.list[2].path

----------------------------------------------------------------------------
(* C9 *)

\* C9: when the fetch fails the loader returns the empty index without
\* raising, start-up goes on to login, and every autocomplete query of at
\* least 3 characters is answered with the no_results sentinel
C9_FailedFetchEmptyIndex ==
    apiResponse.status # "ok"
        => /\ pc # "crashed"
           /\ pc # "start" => wikiPages = <<>>
           /\ pc = "loaded" => ENABLED Login
           /\ (AutocompleteHandled /\ Len(event.value) >= 3)
                 => RespondedWith(<<[name |-> MSG_NO_RESULTS,
                                     value |-> NO_RESULTS]>>)

\* after a malformed response the bot is logged in and answers no_results
C9_Witness ==
    /\ apiResponse.status = "malformed"
    /\ pc = "loggedin"
    /\ AutocompleteHandled
    /\ event.value = <<"s", "e", "t">>
    /\ RespondedWith(<<[name |-> MSG_NO_RESULTS, value |-> NO_RESULTS]>>)

----------------------------------------------------------------------------
(* C10 *)

OnAllowlist(g) == \E k \in DOMAIN ALLOWED_GUILDS : ALLOWED_GUILDS[k] = g

\* the one call due for guild g
IsDueCall(call, g) ==
    /\ call.guild = g
    /\ call.op = IF OnAllowlist(g) THEN "deploy" ELSE "leave"

InReadyQueue(g) == \E k \in 1..Len(readyQueue) : readyQueue[k] = g

\* every step of the ready loop and every join attempts exactly the due call,
\* and the ready loop attempts at most one call per guild
C10_OneDueCall ==
    /\ event.type \in {"readyStep", "guildCreate"}
          => /\ Len(out.calls) = 1
             /\ IsDueCall(out.calls[1], event.guild)
             /\ ~out.escaped
    /\ \A g \in GuildIds :
          /\ Len(readyLog[g]) <= 1
          /\ \A k \in 1..Len(readyLog[g]) : IsDueCall(readyLog[g][k].call, g)
          /\ InReadyQueue(g) => readyLog[g] = <<>>

\* C10: on ready, for every guild of the cache, and on every join, exactly
\* one call is attempted: registration if the guild is on the allowlist,
\* leave otherwise; and whatever the outcome of the calls made for the other
\* guilds, the call for each guild the ready loop has to visit is eventually
\* attempted
C10_LifecycleEnforcesAllowlist ==
    /\ []C10_OneDueCall
    /\ \A g \in GuildIds : InReadyQueue(g) ~> (Len(readyLog[g]) = 1)

\* the ready loop is over: a leave failed for one guild and the registration
\* for the other was attempted after it
C10_Witness ==
    /\ pc = "ready"
    /\ readyQueue = <<>>
    /\ event.type = "readyStep"
    /\ event.guild = G1
    /\ Len(readyLog[G2]) = 1
    /\ readyLog[G2][1].call.op = "leave"
    /\ ~readyLog[G2][1].ok
    /\ Len(readyLog[G1]) = 1
    /\ readyLog[G1][1].call.op = "deploy"

====
